---------------------------- MODULE Spec2Model ----------------------------
(***************************************************************************)
(* PDF Metadata Editor (src/app.py): the PDF date codec                     *)
(* (pdf_date_to_datetime, format_pdf_date) and the batch processing loop    *)
(* of the Streamlit script (apply / clear), with the session state the      *)
(* script keeps between reruns.                                             *)
(*                                                                         *)
(* Python strings are modelled as sequences of one-character strings, so    *)
(* that slicing, padding, filtering and parsing are computed as the code    *)
(* computes them.                                                           *)
(***************************************************************************)
EXTENDS Integers, Sequences, FiniteSets, TLC

VARIABLES
    \* ---- codec harness (SpecCodec) ----
    cOp,        \* "decode" | "encode": which codec function the run exercises
    cIn,        \* the Python value handed to pdf_date_to_datetime
    cDt,        \* the datetime handed to format_pdf_date
    cPc,        \* "start" | "decoded" | "encoded" | "roundtrip"
    cStr,       \* the string format_pdf_date returned
    cRes,       \* the outcome of pdf_date_to_datetime
    \* ---- loop harness (SpecLoop) ----
    lFiles,     \* the batch handed to the processing loop (table places)
    lAction,    \* "apply" | "clear": the action the loop runs
    lForm,      \* the values of the form the loop reads
    lPc,        \* "start" | "done"
    lProcessed, \* the list `processed` the loop has built
    lErrors,    \* the list `errors` the loop has built
    \* ---- the build the script runs on ----
    padYear,    \* TRUE: the C library's strftime zero-pads %Y to 4 digits
    localTz,    \* LOCAL_TZ, the zone object lines 34-38 bind
    autoDates,  \* TRUE: the document engine stamps a new writer with dates
    \* ---- the Streamlit script (Spec) ----
    folder,             \* the PDF files the user has at hand (table places)
    uploaded_files,     \* the uploader widget's files, in order (table places)
    metadata_values,    \* st.session_state.metadata_values (its dates)
    last_first_filename,\* st.session_state.last_first_filename
    run_action,         \* st.session_state.run_action
    processed_results,  \* st.session_state.processed_results
    processed_errors,   \* st.session_state.processed_errors
    last_action         \* st.session_state.last_action

codecVars == <<cOp, cIn, cDt, cPc, cStr, cRes>>
loopVars == <<lFiles, lAction, lForm, lPc, lProcessed, lErrors>>
buildVars == <<padYear, localTz, autoDates>>
appVars == <<folder, uploaded_files, metadata_values, last_first_filename, run_action, processed_results,
             processed_errors, last_action>>
vars == <<codecVars, loopVars, buildVars, appVars>>

-----------------------------------------------------------------------------
(* Python string primitives                                                 *)

DigitChars == <<"0", "1", "2", "3", "4", "5", "6", "7", "8", "9">>

Digit == {DigitChars[i] : i \in 1..10}

\* str.isdigit / the regex class \d, on the model's alphabet
IsDigit(c) == c \in Digit

DigitVal(c) == (CHOOSE i \in 1..10 : DigitChars[i] = c) - 1

Min(a, b) == IF a < b THEN a ELSE b

Abs(n) == IF n < 0 THEN -n ELSE n

\* s[a:b] with 0 <= a <= b (Python slice, clipped to the string)
Slice(s, a, b) == SubSeq(s, a + 1, Min(b, Len(s)))

\* s[a:]
SliceFrom(s, a) == SubSeq(s, a + 1, Len(s))

\* s.startswith(p)
StartsWith(s, p) == Len(s) >= Len(p) /\ SubSeq(s, 1, Len(p)) = p

\* s.ljust(n, c)
Ljust(s, n, c) == s \o [i \in 1..(IF n > Len(s) THEN n - Len(s) ELSE 0) |-> c]

\* "".join(filter(str.isdigit, s))
FilterDigits(s) == SelectSeq(s, IsDigit)

\* int(s) for a string of decimal digits; IntParses(s) is FALSE where int
\* raises ValueError (the empty string)
IntParses(s) == Len(s) > 0 /\ \A i \in 1..Len(s) : IsDigit(s[i])

RECURSIVE IntOf(_)
IntOf(s) == IF Len(s) = 0 THEN 0
            ELSE IntOf(SubSeq(s, 1, Len(s) - 1)) * 10 + DigitVal(s[Len(s)])

\* decimal digits of n >= 0, without padding (format spec "d")
RECURSIVE Dec(_)
Dec(n) == IF n < 10 THEN <<DigitChars[n + 1]>>
          ELSE Dec(n \div 10) \o <<DigitChars[(n % 10) + 1]>>

\* format spec "0wd": zero-padded to at least w characters
ZPad(n, w) == LET d == Dec(n)
              IN  [i \in 1..(IF w > Len(d) THEN w - Len(d) ELSE 0) |-> "0"] \o d

-----------------------------------------------------------------------------
(* Python values                                                            *)

\* a str value and a non-str value (None) as the argument of
\* pdf_date_to_datetime
PyStr(s) == [isstr |-> TRUE, s |-> s]
PyNone == [isstr |-> FALSE, s |-> <<>>]

\* Outcomes of pdf_date_to_datetime: None, a raised exception, or an aware
\* datetime (wall-clock fields plus utcoffset in minutes)
NoneDt == [kind |-> "none", year |-> 0, month |-> 0, day |-> 0, hour |-> 0,
           minute |-> 0, second |-> 0, off |-> 0]
RaiseDt == [kind |-> "raise", year |-> 0, month |-> 0, day |-> 0, hour |-> 0,
            minute |-> 0, second |-> 0, off |-> 0]
AwareDt(y, mo, d, h, mi, s, o) ==
    [kind |-> "dt", year |-> y, month |-> mo, day |-> d, hour |-> h,
     minute |-> mi, second |-> s, off |-> o]
\* a naive datetime (tzinfo is None), as datetime.combine builds it
NaiveDt(y, mo, d, h, mi, s) ==
    [kind |-> "naive", year |-> y, month |-> mo, day |-> d, hour |-> h,
     minute |-> mi, second |-> s, off |-> 0]

IsLeap(y) == (y % 4 = 0 /\ y % 100 # 0) \/ y % 400 = 0

DaysInMonth(y, mo) ==
    IF mo = 2 THEN (IF IsLeap(y) THEN 29 ELSE 28)
    ELSE IF mo \in {4, 6, 9, 11} THEN 30 ELSE 31


-----------------------------------------------------------------------------
(* pdf_date_to_datetime                                                     *)

\* datetime.strptime(padded, "%Y%m%d%H%M%S") on a 14-character string.
\* The format compiles to the regex
\*   (\d\d\d\d)(1[0-2]|0[1-9]|[1-9])(3[0-1]|[1-2]\d|0[1-9]|[1-9]| [1-9])
\*   (2[0-3]|[0-1]\d|\d)([0-5]\d|\d)(6[0-1]|[0-5]\d|\d)
\* and the whole string must be consumed: with 14 characters every field
\* has to take its two-character alternative.  The date and the time are
\* then validated by the date / datetime constructors (year >= 1, day within
\* the month, second <= 59).  A failure of either is ValueError (RaiseDt).
StrptimeRegex(p) ==
    /\ \A i \in 1..4 : IsDigit(p[i])
    /\ \/ p[5] = "1" /\ p[6] \in {"0", "1", "2"}
       \/ p[5] = "0" /\ p[6] \in Digit \ {"0"}
    /\ \/ p[7] = "3" /\ p[8] \in {"0", "1"}
       \/ p[7] \in {"1", "2"} /\ p[8] \in Digit
       \/ p[7] = "0" /\ p[8] \in Digit \ {"0"}
       \/ p[7] = " " /\ p[8] \in Digit \ {"0"}
    /\ \/ p[9] = "2" /\ p[10] \in {"0", "1", "2", "3"}
       \/ p[9] \in {"0", "1"} /\ p[10] \in Digit
    /\ p[11] \in {"0", "1", "2", "3", "4", "5"} /\ p[12] \in Digit
    /\ \/ p[13] = "6" /\ p[14] \in {"0", "1"}
       \/ p[13] \in {"0", "1", "2", "3", "4", "5"} /\ p[14] \in Digit

StrptimeFields(y, mo, d, h, mi, s) ==
    IF y >= 1 /\ d <= DaysInMonth(y, mo) /\ s <= 59
    THEN NaiveDt(y, mo, d, h, mi, s)
    ELSE RaiseDt
Strptime(p) ==
    IF ~StrptimeRegex(p) THEN RaiseDt
    ELSE StrptimeFields(IntOf(SubSeq(p, 1, 4)), IntOf(SubSeq(p, 5, 6)),
                        IntOf(FilterDigits(SubSeq(p, 7, 8))),
                        IntOf(SubSeq(p, 9, 10)), IntOf(SubSeq(p, 11, 12)),
                        IntOf(SubSeq(p, 13, 14)))

\* lines 171-180: the offset in minutes read from a non-empty tz_part that is
\* not "Z".  One try block covers both int() calls.
OffsetMinutes(sign, hours, mins) ==
    IF IntParses(hours) /\ IntParses(mins)
    THEN (IF sign = "-" THEN -1 ELSE 1) * (IntOf(hours) * 60 + IntOf(mins))
    ELSE 0
TzOffsetMinutes(tz_part) ==
    OffsetMinutes(tz_part[1], FilterDigits(Slice(tz_part, 1, 3)),
                  IF Len(tz_part) >= 6 THEN FilterDigits(Slice(tz_part, 4, 6))
                  ELSE <<"0", "0">>)

\* pytz.FixedOffset(offset): raises ValueError("absolute offset is too
\* large") when abs(offset) >= 1440; FixedOffset(0) is pytz.UTC
FixedOffsetRaises(offset) == Abs(offset) >= 1440

\* line 181-183: the zone of the offset, attached to the naive datetime
WithOffset(dt_naive, offset_minutes) ==
    IF FixedOffsetRaises(offset_minutes) THEN RaiseDt
    ELSE [dt_naive EXCEPT !.kind = "dt", !.off = offset_minutes]

\* lines 159-183, from the parsed date part and the text after it
WithZone(dt_naive, tz_part) ==
    IF dt_naive.kind = "raise" THEN NoneDt
    ELSE IF tz_part = <<>> \/ tz_part = <<"Z">>
    THEN [dt_naive EXCEPT !.kind = "dt", !.off = 0]
    ELSE WithOffset(dt_naive, TzOffsetMinutes(tz_part))

\* lines 151-183: raw is the text after "D:", base_len is min(14, len(raw))
DecodeRaw(raw, base_len) ==
    WithZone(Strptime(Ljust(Slice(raw, 0, base_len), 14, "0")),
             SliceFrom(raw, base_len))

pdf_date_to_datetime(pdf_date_str) ==
    IF ~pdf_date_str.isstr \/ ~StartsWith(pdf_date_str.s, <<"D", ":">>)
    THEN NoneDt
    ELSE DecodeRaw(SliceFrom(pdf_date_str.s, 2),
                   Min(14, Len(pdf_date_str.s) - 2))

-----------------------------------------------------------------------------
(* format_pdf_date                                                          *)

\* A zone object: its offset in minutes outside and inside the summer
\* months, and whether it has the method localize (pytz zones have it,
\* zoneinfo.ZoneInfo, which tzlocal 3 and later return, has not)
Zone(std, dst, localize) == [std |-> std, dst |-> dst, localize |-> localize]

\* pytz.FixedOffset(o), the tzinfo of the datetimes pdf_date_to_datetime
\* returns (pytz.UTC when o is 0)
FixedOffset(o) == Zone(o, o, TRUE)

\* the months in which a zone of the northern hemisphere with daylight
\* saving is on summer time from the first to the last day (the months of
\* the two transitions, 3 and 10, are not given to a zone with dst # std)
SummerMonths == 4..9
UtcOffsetAt(zone, dt) ==
    IF dt.month \in SummerMonths THEN zone.dst ELSE zone.std

\* the tz argument: a zone or None
TzArg(zone) == [given |-> TRUE, zone |-> zone]
NoTz == [given |-> FALSE, zone |-> FixedOffset(0)]

\* dt.strftime('%Y%m%d%H%M%S').  %Y is handed to the C library: glibc prints
\* the year without padding (999 -> "999"), other libraries and newer
\* interpreters pad it to 4 digits.  padYear is the build's behaviour.
Strftime(dt) ==
    (IF padYear THEN ZPad(dt.year, 4) ELSE Dec(dt.year))
    \o ZPad(dt.month, 2) \o ZPad(dt.day, 2)
    \o ZPad(dt.hour, 2) \o ZPad(dt.minute, 2) \o ZPad(dt.second, 2)

\* lines 196-198: a naive datetime gets the zone `tz or LOCAL_TZ` by
\* tz.localize(dt); a zone object without that method makes line 198 raise
\* AttributeError
ZoneFor(tz) == IF tz.given THEN tz.zone ELSE localTz
LocalizeRaises(dt, tz) == dt.kind = "naive" /\ ~ZoneFor(tz).localize
Localize(dt, tz) ==
    IF dt.kind = "naive"
    THEN [dt EXCEPT !.kind = "dt", !.off = UtcOffsetAt(ZoneFor(tz), dt)]
    ELSE dt

\* the text of the exception of line 198, in the place of a result
ExcLocalize == <<"AttributeError">>

format_pdf_date(dt, tz) ==
    IF dt.kind = "none" THEN <<>>
    ELSE IF LocalizeRaises(dt, tz) THEN ExcLocalize
    ELSE LET adt    == Localize(dt, tz)
             offset == adt.off
             total_minutes == Abs(offset)
             sign   == IF offset >= 0 THEN "+" ELSE "-"
             hrs    == total_minutes \div 60
             mins   == total_minutes % 60
         IN  IF offset = 0
             THEN <<"D", ":">> \o Strftime(adt) \o <<"Z">>
             ELSE <<"D", ":">> \o Strftime(adt) \o <<sign>> \o ZPad(hrs, 2)
                  \o <<"'">> \o ZPad(mins, 2) \o <<"'">>

-----------------------------------------------------------------------------
(* Inputs of the codec harness                                              *)

\* the 14 digits YYYYMMDDHHMMSS of six numbers (which need not be valid)
Fmt14(y, mo, d, h, mi, s) ==
    ZPad(y, 4) \o ZPad(mo, 2) \o ZPad(d, 2) \o ZPad(h, 2) \o ZPad(mi, 2)
    \o ZPad(s, 2)

\* digit segments that are cut at every length
CutSegs == {Fmt14(2024, 9, 10, 12, 30, 0), Fmt14(2024, 2, 29, 23, 59, 59)}

\* 14-digit segments used whole: valid ones and ones that fail validation
WholeSegs == {Fmt14(2023, 2, 29, 0, 0, 0), Fmt14(2024, 13, 32, 0, 0, 0),
              Fmt14(999, 1, 1, 0, 0, 0), Fmt14(0, 1, 1, 0, 0, 0),
              Fmt14(2024, 9, 10, 12, 30, 60), Fmt14(2024, 9, 10, 24, 0, 0),
              Fmt14(2024, 4, 31, 0, 0, 0), Fmt14(1900, 2, 29, 0, 0, 0)}

DigitSegs == {SubSeq(f, 1, n) : f \in CutSegs, n \in 0..14} \cup WholeSegs

\* what may follow the digits
Suffixes ==
    { <<>>, <<"Z">>, <<"z">>, <<"+">>, <<"-">>,
      <<"+", "0", "2", "'", "0", "0", "'">>,
      <<"-", "0", "5", "'", "3", "0", "'">>,
      <<"+", "0", "0", "'", "0", "0", "'">>,
      <<"-", "0", "0", "'", "0", "0", "'">>,
      <<"+", "1", "4", "'", "0", "0", "'">>,
      <<"-", "1", "2", "'", "0", "0", "'">>,
      <<"+", "2", "3", "'", "5", "9", "'">>,
      <<"+", "2", "4", "'", "0", "0", "'">>,
      <<"-", "2", "4", "'", "0", "0", "'">>,
      <<"+", "2", "3", "'", "6", "0", "'">>,
      <<"+", "9", "9", "'", "9", "9", "'">>,
      <<"+", "X", "X", "'", "Y", "Y", "'">>,
      <<"+", "0", "2", "'", "Y", "Y", "'">>,
      <<"+", "X", "X", "'", "3", "0", "'">>,
      <<"-", "0", "2", "'", "Y", "Y", "'">>,
      <<"+", "0", "2">>, <<"+", "0", "2", "'">>,
      <<"+", "0", "2", "'", "3">>, <<"+", "0", "2", "'", "3", "0">>,
      <<"+", "0", "2", "3", "0">>, <<"+", "0", "2", ":", "3", "0">>,
      <<"+", "2", "'", "3", "0", "'">>,
      <<"X", "0", "2", "'", "3", "0", "'">>,
      <<"Z", "0", "2", "'", "3", "0", "'">>,
      <<" ", "Z">> }

\* strings without the D: prefix, and other shapes
OtherStrings ==
    { <<>>, <<"D">>, <<"D", ":">>, <<"d", ":", "2", "0", "2", "4">>,
      <<"2", "0", "2", "4", "-", "0", "9", "-", "1", "0">>,
      Fmt14(2024, 9, 10, 12, 30, 0),
      <<"D", ":", "2", "0", "2", "4", "0", "9", " ", "1", "1", "2", "3", "0",
        "0", "0">>,
      <<"D", ":", "2", "0", "2", "4", "-", "0", "9", "-", "1", "0">> }

DecodeInputs ==
    {PyStr(<<"D", ":">> \o seg \o suf) : seg \in DigitSegs, suf \in Suffixes}
    \cup {PyStr(s) : s \in OtherStrings} \cup {PyNone}

\* datetimes handed to format_pdf_date
EncYears == {1, 999, 1000, 2024, 9999}
EncOffsets == {-720, -719, -330, -60, -1, 0, 1, 59, 60, 330, 840}

EncodeInputs ==
    {AwareDt(y, mo, d, h, mi, s, o) :
        y \in EncYears, mo \in {1, 2, 12},
        d \in {1, 28, 31}, h \in {0, 23}, mi \in {0, 59}, s \in {0, 59},
        o \in EncOffsets}
    \cup {AwareDt(2024, 2, 29, 12, 30, 0, o) : o \in -1..1}
    \cup {NaiveDt(2024, 9, 10, 12, 30, 0), NoneDt}

ValidDt(dt) ==
    /\ dt.year \in 1..9999 /\ dt.month \in 1..12
    /\ dt.day \in 1..DaysInMonth(dt.year, dt.month)
    /\ dt.hour \in 0..23 /\ dt.minute \in 0..59 /\ dt.second \in 0..59

\* LOCAL_TZ (lines 34-38): pytz.UTC where tzlocal cannot be imported, else
\* the machine's zone as tzlocal hands it out: a pytz zone (tzlocal before
\* version 3), here one with daylight saving, or a zoneinfo zone
LocalZones == {FixedOffset(0), Zone(60, 120, TRUE), Zone(60, 120, FALSE)}

-----------------------------------------------------------------------------
(* The Streamlit script: values                                             *)

\* Python dicts: functions from keys to values
EmptyDict == [k \in {} |-> <<>>]
DictUpdate(d, e) ==
    [k \in DOMAIN d \cup DOMAIN e |-> IF k \in DOMAIN e THEN e[k] ELSE d[k]]
DictPop(d, k) == [x \in DOMAIN d \ {k} |-> d[x]]
\* d.get(k, "")
DictGet(d, k) == IF k \in DOMAIN d THEN d[k] ELSE <<>>

\* str.strip() on the model's alphabet (the blank is the only whitespace)
RECURSIVE LStrip(_)
LStrip(s) == IF Len(s) > 0 /\ s[1] = " " THEN LStrip(Tail(s)) ELSE s
RECURSIVE RStrip(_)
RStrip(s) == IF Len(s) > 0 /\ s[Len(s)] = " "
             THEN RStrip(SubSeq(s, 1, Len(s) - 1)) ELSE s
Strip(s) == RStrip(LStrip(s))

\* Path(name).stem: the final path component without its last suffix
\* (pathlib: i = name.rfind('.'); name[:i] if 0 < i < len(name) - 1)
PathName(s) ==
    LET slashes == {i \in 1..Len(s) : s[i] = "/"}
    IN  IF slashes = {} THEN s
        ELSE SliceFrom(s, CHOOSE i \in slashes : \A j \in slashes : j <= i)
RFindDot(name) ==
    LET dots == {i \in 1..Len(name) : name[i] = "."}
    IN  IF dots = {} THEN -1
        ELSE (CHOOSE i \in dots : \A j \in dots : j <= i) - 1
StemFirstDot(s) ==
    LET name == PathName(s)
        dots == {i \in 1..Len(name) : name[i] = "."}
        i    == IF dots = {} THEN -1
                ELSE (CHOOSE k \in dots : \A j \in dots : k <= j) - 1
    IN  IF 0 < i /\ i < Len(name) - 1 THEN Slice(name, 0, i) ELSE name
Stem(s) ==
    LET name == PathName(s)
        i    == RFindDot(name)
    IN  IF 0 < i /\ i < Len(name) - 1 THEN Slice(name, 0, i) ELSE name

\* the texts of the exceptions the document engine raises
ExcOpen == <<"PdfReadError">>
ExcWrite == <<"PdfWriteError">>

\* An uploaded PDF.  kind "corrupt": PdfReader(...) raises; "unwritable":
\* it opens, and writer.write raises; "ok": it opens and writes.  info is
\* its Info dictionary, pages stands for its page content.
PdfDoc(kind, pages, info) == [kind |-> kind, pages |-> pages, info |-> info]
UploadedFile(name, doc) == [name |-> name, doc |-> doc]

DateInfo(creation, mod) ==
    DictUpdate(IF creation = <<>> THEN EmptyDict
               ELSE [k \in {"/CreationDate"} |-> creation],
               IF mod = <<>> THEN EmptyDict
               ELSE [k \in {"/ModDate"} |-> mod])

Dp == <<"D", ":">>
Plus0200 == <<"+", "0", "2", "'", "0", "0", "'">>
Minus0530 == <<"-", "0", "5", "'", "3", "0", "'">>
Plus2400 == <<"+", "2", "4", "'", "0", "0", "'">>

\* the PDF files of the model; the uploader's state names them by their
\* place in this table
FileTable ==
    << UploadedFile(<<"a", ".", "b", ".", "p", "d", "f">>,
        PdfDoc("ok", "p1",
               DateInfo(Dp \o Fmt14(2024, 9, 10, 12, 30, 0) \o Plus0200,
                        Dp \o Fmt14(2024, 2, 29, 23, 59, 59) \o <<"Z">>))),
       UploadedFile(<<"a", ".", "b", ".", "P", "D", "F">>,
        PdfDoc("ok", "p2",
               DateInfo(Dp \o <<"2", "0", "2", "4">>,
                        Dp \o Fmt14(2024, 9, 10, 12, 30, 0) \o Minus0530))),
       UploadedFile(<<"c", ".", "p", "d", "f">>,
        PdfDoc("corrupt", "p3", EmptyDict)),
       UploadedFile(<<"d", ".", "p", "d", "f">>,
        PdfDoc("unwritable", "p4",
               DateInfo(Dp \o Fmt14(2024, 9, 10, 12, 30, 0) \o Plus2400,
                        Dp \o Fmt14(2024, 9, 10, 12, 30, 0) \o <<"Z">>))) >>

FileIds == DOMAIN FileTable

\* the UploadedFile objects of a list of table places
FilesOf(ids) == [i \in 1..Len(ids) |-> FileTable[ids[i]]]

\* number of files the user has at hand; an upload is any non-empty
\* selection of them, in any order
MaxFiles == 2

Folders == {F \in SUBSET FileIds : Cardinality(F) = MaxFiles}

RECURSIVE Orderings(_)
Orderings(S) ==
    IF S = {} THEN {<<>>}
    ELSE UNION {{<<x>> \o q : q \in Orderings(S \ {x})} : x \in S}

\* what the uploader can hold: no file, or some files of the folder in the
\* order the user picked them
UploadsFrom(F) == UNION {Orderings(S) : S \in SUBSET F}

\* longest batch handed to the loop harness
MaxBatch == 3

\* the batches of the loop harness: one to MaxBatch files of the table, in
\* any order
Batches ==
    UNION {Orderings(S) :
              S \in {T \in SUBSET FileIds : Cardinality(T) \in 1..MaxBatch}}

\* st.session_state.processed_results: None or a list
NoResults == [none |-> TRUE, list |-> <<>>]
ResultList(l) == [none |-> FALSE, list |-> l]

\* the values of the form the loop reads: six text inputs, the two
\* date/time pairs (combined: naive datetimes) and the checkbox
Form(title, author, subject, keywords, creator, producer, same) ==
    [title |-> title, author |-> author, subject |-> subject,
     keywords |-> keywords, creator |-> creator, producer |-> producer,
     cdt |-> NaiveDt(2025, 1, 2, 3, 4, 5), mdt |-> NaiveDt(2025, 6, 7, 8, 9, 10),
     apply_same_dates |-> same]

Forms ==
    {Form(<<" ", "T", " ">>, <<>>, <<" ", " ">>, <<"k">>, <<"J">>, <<"O">>, s)
        : s \in BOOLEAN}

InitialForm == Form(<<>>, <<>>, <<>>, <<>>, <<"J">>, <<"O">>, TRUE)

-----------------------------------------------------------------------------
(* The Streamlit script: helpers                                            *)

\* lines 212-245: the two dates extract_metadata_dict returns.  Any
\* exception inside (the reader's, or pdf_date_to_datetime's) is caught and
\* both dates come back as None.
DateKeys == {"/CreationDate", "/ModDate"}
CaughtDates(kind, dt) ==
    IF kind = "corrupt" \/ \E k \in DateKeys : dt[k].kind = "raise"
    THEN [creation_dt |-> NoneDt, mod_dt |-> NoneDt]
    ELSE [creation_dt |-> dt["/CreationDate"], mod_dt |-> dt["/ModDate"]]
extract_metadata_dict(doc) ==
    CaughtDates(doc.kind,
                [k \in DateKeys |->
                    pdf_date_to_datetime(PyStr(DictGet(doc.info, k)))])

\* extract_metadata_dict on the documents of the table, computed once
ExtractedTable ==
    [d \in {FileTable[i].doc : i \in FileIds} |-> extract_metadata_dict(d)]
ExtractedOf(doc) == ExtractedTable[doc]

\* lines 260-265: c_dt.date() and c_dt.time() drop the zone; time(0, 0, 0)
\* stands in for a missing date
PopulateDates(extracted) ==
    [creation |-> IF extracted.creation_dt.kind = "none" THEN NoneDt
                  ELSE [extracted.creation_dt EXCEPT !.kind = "naive", !.off = 0],
     mod      |-> IF extracted.mod_dt.kind = "none" THEN NoneDt
                  ELSE [extracted.mod_dt EXCEPT !.kind = "naive", !.off = 0]]

\* PdfWriter() followed by append_pages_from_reader: the Info dictionary of
\* the fresh writer.  It holds the library's /Producer and, where the engine
\* stamps documents (autoDates), the two dates.
NowStamp == Dp \o Fmt14(2026, 1, 1, 0, 0, 0) \o <<"Z">>
NewWriterInfo ==
    DictUpdate([k \in {"/Producer"} |-> <<"p", "y", "p", "d", "f">>],
               IF autoDates
               THEN [k \in {"/CreationDate", "/ModDate"} |-> NowStamp]
               ELSE EmptyDict)

\* line 474: hasattr(writer, "_info").  A PdfWriter of pypdf has _info, the
\* Info dictionary its constructor registers (an attribute, in later
\* releases a property), so the guard is true for each writer line 468 makes.
WriterHasInfo == TRUE

\* lines 473-476: the clear branch
ClearKeepDates(info) == DictUpdate(info, EmptyDict)
ClearMetadata(info) ==
    IF WriterHasInfo
    THEN DictPop(DictPop(DictUpdate(info, EmptyDict), "/CreationDate"),
                 "/ModDate")
    ELSE DictUpdate(info, EmptyDict)

\* lines 484-495: the text entries, stripped, blank ones left out
TextEntry(key, value) ==
    IF Strip(value) # <<>> THEN [k \in {key} |-> Strip(value)] ELSE EmptyDict
TextEntries(w) ==
    DictUpdate(TextEntry("/Title", w.title),
    DictUpdate(TextEntry("/Author", w.author),
    DictUpdate(TextEntry("/Subject", w.subject),
    DictUpdate(TextEntry("/Keywords", w.keywords),
    DictUpdate(TextEntry("/Creator", w.creator),
               TextEntry("/Producer", w.producer))))))

\* lines 498-518: the date entries
DateEntry(key, dt, tz) ==
    IF dt.kind = "none" THEN EmptyDict
    ELSE [k \in {key} |-> format_pdf_date(dt, tz)]
SharedDateEntries(w) ==
    DictUpdate(DateEntry("/CreationDate", w.cdt, TzArg(localTz)),
               DateEntry("/ModDate", w.mdt, TzArg(localTz)))
PreservedDateEntries(doc) ==
    LET src_meta == ExtractedOf(doc)
    IN  DictUpdate(DateEntry("/CreationDate", src_meta.creation_dt,
                             TzArg(FixedOffset(src_meta.creation_dt.off))),
                   DateEntry("/ModDate", src_meta.mod_dt,
                             TzArg(FixedOffset(src_meta.mod_dt.off))))
DateEntries(w, doc) ==
    IF w.apply_same_dates THEN SharedDateEntries(w)
    ELSE PreservedDateEntries(doc)

\* a call of format_pdf_date in lines 498-518 raises (line 198); the
\* datetimes of the preserve branch are aware and are never localized
DatesRaise(w) ==
    /\ w.apply_same_dates
    /\ \/ LocalizeRaises(w.cdt, TzArg(localTz))
       \/ LocalizeRaises(w.mdt, TzArg(localTz))

\* lines 529-530
Prefix(act) ==
    IF act = "clear" THEN <<"[", "C", "L", "E", "A", "R", "E", "D", "]">>
    ELSE <<"[", "E", "D", "I", "T", "E", "D", "]">>
NewName(act, name) ==
    Prefix(act) \o <<" ">> \o Stem(name) \o <<".", "p", "d", "f">>

\* line 533: f"{file.name}: {exc}"
ErrorLine(name, exc) == name \o <<":", " ">> \o exc

-----------------------------------------------------------------------------
(* The Streamlit script: the processing loop (lines 456-535)                *)

\* What the loop carries from one iteration to the next: the two lists, and
\* the names the body binds, which keep their objects when an iteration
\* ends, by line 531 or in the except clause.  Before the first iteration
\* meta_dict and writer are unbound (no path reads them before it binds
\* them); the empty dictionary stands for that.
LoopStart ==
    [processed |-> <<>>, errors |-> <<>>,
     meta_dict |-> EmptyDict, writer |-> EmptyDict]

\* lines 532-533: the except clause
Failed(acc, file, exc) ==
    [acc EXCEPT !.errors = Append(@, ErrorLine(file.name, exc))]

\* lines 525-531: writer.write, which raises on a document that cannot be
\* serialized, then the new name and processed.append
Written(acc, file, act) ==
    IF file.doc.kind = "unwritable" THEN Failed(acc, file, ExcWrite)
    ELSE [acc EXCEPT !.processed =
              Append(@, [name |-> NewName(act, file.name),
                         pages |-> file.doc.pages, info |-> acc.writer])]

\* line 520: writer.add_metadata(meta_dict)
MetadataAdded(acc, file, act) ==
    Written([acc EXCEPT !.writer = DictUpdate(@, acc.meta_dict)], file, act)

\* lines 498-518: the dates go into meta_dict; line 502 raises where
\* LOCAL_TZ cannot localize
Dated(acc, file, act, w) ==
    IF DatesRaise(w) THEN Failed(acc, file, ExcLocalize)
    ELSE MetadataAdded([acc EXCEPT !.meta_dict =
                            DictUpdate(@, DateEntries(w, file.doc))],
                       file, act)

\* lines 471-495 without the new dictionary of line 481
TransformedKeepsMetaDict(acc, file, act, w) ==
    IF act = "clear"
    THEN Written([acc EXCEPT !.writer = ClearMetadata(@)], file, act)
    ELSE Dated([acc EXCEPT !.meta_dict = DictUpdate(@, TextEntries(w))],
               file, act, w)

\* lines 471-495: the clear branch, or meta_dict bound to a new dictionary
\* (line 481) that takes the text entries
Transformed(acc, file, act, w) ==
    IF act = "clear"
    THEN Written([acc EXCEPT !.writer = ClearMetadata(@)], file, act)
    ELSE Dated([acc EXCEPT !.meta_dict = DictUpdate(EmptyDict, TextEntries(w))],
               file, act, w)

\* One iteration of the loop body, lines 465-533.  PdfReader raises on bytes
\* that are no document, before writer is bound to a new PdfWriter.
ProcessFile(acc, file, act, w) ==
    IF file.doc.kind = "corrupt" THEN Failed(acc, file, ExcOpen)
    ELSE Transformed([acc EXCEPT !.writer = NewWriterInfo], file, act, w)

\* the for loop from file i on
RECURSIVE Loop(_, _, _, _, _)
Loop(files, i, act, w, acc) ==
    IF i > Len(files) THEN acc
    ELSE Loop(files, i + 1, act, w, ProcessFile(acc, files[i], act, w))

-----------------------------------------------------------------------------
(* The Streamlit script: one action per rerun of the script                 *)

Init ==
    /\ padYear \in BOOLEAN
    /\ localTz \in LocalZones
    /\ autoDates \in BOOLEAN
    /\ cOp = "decode" /\ cIn = PyNone /\ cDt = NoneDt /\ cPc = "start"
    /\ cStr = <<>> /\ cRes = NoneDt
    /\ lFiles = <<>> /\ lAction = "apply" /\ lForm = InitialForm
    /\ lPc = "start" /\ lProcessed = <<>> /\ lErrors = <<>>
    /\ folder \in Folders
    /\ uploaded_files = <<>>
    /\ metadata_values = [creation |-> NoneDt, mod |-> NoneDt]
    /\ last_first_filename = <<>>
    /\ run_action = "none"
    /\ processed_results = NoResults
    /\ processed_errors = <<>>
    /\ last_action = "none"

\* lines 453 and 541-544: run_action is reset and the loop's lists are stored
Store(out, act) ==
    /\ run_action' = "none"
    /\ processed_results' = ResultList(out.processed)
    /\ processed_errors' = out.errors
    /\ last_action' = act

\* lines 451-544 for the action the session holds: run_action is taken and
\* reset, the loop runs over every uploaded file with the form's values w of
\* this rerun, its outcomes go to the session
Process(files, act, w) ==
    Store(Loop(FilesOf(files), 1, act, w, LoopStart),
          act)

\* lines 451-453 in a run that a further widget event ends at one of its
\* next st.* calls (line 459 on), before line 541: run_action has been
\* taken and reset, nothing is stored
Consumed ==
    /\ run_action' = "none"
    /\ UNCHANGED <<processed_results, processed_errors, last_action>>

\* a run that does not reach line 451 (st.stop at line 288, or a further
\* widget event ends it at a st.* call of lines 294-445), or reaches it with
\* no run_action set
Kept ==
    UNCHANGED <<run_action, processed_results, processed_errors, last_action>>

\* lines 277-286: a batch whose first file has a name other than the one
\* the session remembers re-initialises the form's values
InitForm(files) ==
    IF files # <<>> /\ last_first_filename # FileTable[files[1]].name
    THEN /\ metadata_values' =
               PopulateDates(ExtractedOf(FileTable[files[1]].doc))
         /\ last_first_filename' = FileTable[files[1]].name
    ELSE UNCHANGED <<metadata_values, last_first_filename>>

\* lines 271-289: the uploader's value changes and the script reruns
UploadInit(files) ==
    /\ files # uploaded_files
    /\ uploaded_files' = files
    /\ InitForm(files)
    /\ UNCHANGED <<folder, codecVars, loopVars, buildVars>>

\* lines 271-289, then the rest of the rerun.  An empty uploader stops the
\* script at line 288.  The results of the session are left as they are,
\* unless run_action is still set from a run that ended after line 443:
\* then line 451 finds it and the new batch is processed, with the form as
\* this rerun shows it; or the run is ended in its turn, inside the
\* processing block (Consumed) or before it (Kept).
Upload(files) ==
    /\ UploadInit(files)
    /\ IF files # <<>> /\ run_action # "none"
       THEN \/ \E w \in Forms : Process(files, run_action, w)
            \/ Consumed
            \/ Kept
       ELSE Kept

\* lines 271-282: the uploader's value changes and a further widget event
\* ends the rerun before line 283 has written anything: at a st.* call of
\* lines 43-271, or at the st.warning of line 235.  The uploader holds the
\* new files, the session is as it was.
UploadCut(files) ==
    /\ files # uploaded_files
    /\ uploaded_files' = files
    /\ UNCHANGED <<folder, metadata_values, last_first_filename, run_action,
                   processed_results, processed_errors, last_action,
                   codecVars, loopVars, buildVars>>

\* lines 271-286 of a rerun for an event of a widget of the form (a field,
\* a button): the uploader holds what it held, and the page holds a form,
\* which takes a run that has passed line 288.  Such a run starts with the
\* initialisation that a run ended early has left undone.
FormRerun ==
    /\ uploaded_files # <<>>
    /\ last_first_filename # <<>>
    /\ InitForm(uploaded_files)
    /\ UNCHANGED <<folder, uploaded_files, codecVars, loopVars, buildVars>>

\* a rerun for a changed field of the form that does the initialisation an
\* earlier run has left undone and nothing else: no run_action is set, or
\* the run is ended before line 451
FieldChanged ==
    /\ FormRerun
    /\ last_first_filename' # last_first_filename
    /\ Kept

\* lines 442-443, then the rest of the rerun: the Apply button, with the
\* form as the user left it.  Line 451 finds run_action = "apply" because
\* line 443 has just set it; a rerun for a changed field of the form that
\* finds it set by an earlier, interrupted run does the same.
ApplyChanges(w) ==
    /\ FormRerun
    /\ Process(uploaded_files, "apply", w)

\* lines 442-445: the Apply button in a run that a further widget event
\* ends at its next st.* call, the st.button of line 445: line 443 has
\* stored run_action and nothing has consumed it.  (A run that is ended
\* later, inside lines 451-540, has reset run_action and stored nothing: it
\* leaves the session as it was.)
ApplyInterrupted ==
    /\ FormRerun
    /\ run_action' = "apply"
    /\ UNCHANGED <<processed_results, processed_errors, last_action>>

\* lines 451-459: a rerun over the same files that finds run_action set by
\* an earlier run and is ended inside the processing block
ProcessingInterrupted ==
    /\ FormRerun
    /\ run_action # "none"
    /\ Consumed

\* lines 445-446, then the rest of the rerun: the Clear button.  The clear
\* branch reads no value of the form.
ClearAllMetadata ==
    /\ FormRerun
    /\ Process(uploaded_files, "clear", InitialForm)

\* lines 594-598: the reset button of the download section.  The rerun of
\* the click passes line 451 first, where a run_action still set is
\* processed, and reaches the button (which then resets the session) if
\* line 556 finds a non-empty processed_results: the list this run has
\* stored, or with no run_action set the one the session held.  The button
\* clicked may be one that an earlier run has left on the page.
ResetSession ==
    /\ run_action' = "none"
    /\ processed_results' = NoResults
    /\ processed_errors' = <<>>
    /\ last_action' = "none"
StoreOrReset(out, act) ==
    IF out.processed = <<>> THEN Store(out, act) ELSE ResetSession
ClearPreviousResults ==
    /\ FormRerun
    /\ \/ run_action = "none" /\ processed_results.list # <<>> /\ ResetSession
       \/ /\ run_action # "none"
          /\ \E w \in Forms :
                StoreOrReset(Loop(FilesOf(uploaded_files), 1, run_action, w,
                                  LoopStart),
                             run_action)

Next ==
    \/ \E files \in UploadsFrom(folder) : Upload(files)
    \/ \E files \in UploadsFrom(folder) : UploadCut(files)
    \/ FieldChanged
    \/ \E w \in Forms : ApplyChanges(w)
    \/ ApplyInterrupted
    \/ ProcessingInterrupted
    \/ ClearAllMetadata
    \/ ClearPreviousResults

Spec == Init /\ [][Next]_vars

-----------------------------------------------------------------------------
(* The loop harness: each run hands one batch, one action and one form to   *)
(* the processing loop of lines 456-535                                     *)

InitLoop ==
    /\ padYear \in BOOLEAN
    /\ localTz \in LocalZones
    /\ autoDates \in BOOLEAN
    /\ cOp = "decode" /\ cIn = PyNone /\ cDt = NoneDt /\ cPc = "start"
    /\ cStr = <<>> /\ cRes = NoneDt
    /\ lFiles \in Batches
    /\ lAction \in {"apply", "clear"}
    /\ lForm \in Forms
    /\ lPc = "start"
    /\ lProcessed = <<>>
    /\ lErrors = <<>>
    /\ folder = {}
    /\ uploaded_files = <<>>
    /\ metadata_values = [creation |-> NoneDt, mod |-> NoneDt]
    /\ last_first_filename = <<>>
    /\ run_action = "none"
    /\ processed_results = NoResults
    /\ processed_errors = <<>>
    /\ last_action = "none"

\* lines 456-535: processed and errors start empty, the loop runs over the
\* batch
Ended(out) ==
    /\ lProcessed' = out.processed
    /\ lErrors' = out.errors
RunLoop ==
    /\ lPc = "start"
    /\ Ended(Loop(FilesOf(lFiles), 1, lAction, lForm, LoopStart))
    /\ lPc' = "done"
    /\ UNCHANGED <<lFiles, lAction, lForm, codecVars, buildVars, appVars>>

NextLoop == RunLoop

SpecLoop == InitLoop /\ [][NextLoop]_vars

-----------------------------------------------------------------------------
(* The codec harness: each run decodes one value, or encodes one datetime   *)
(* and decodes the string it got                                            *)

InitCodec ==
    /\ padYear \in BOOLEAN
    /\ localTz \in LocalZones
    /\ autoDates = FALSE
    /\ \/ cOp = "decode" /\ cIn \in DecodeInputs /\ cDt = NoneDt
       \/ cOp = "encode" /\ cIn = PyNone
          /\ cDt \in {dt \in EncodeInputs : dt.kind = "none" \/ ValidDt(dt)}
    /\ cPc = "start"
    /\ cStr = <<>>
    /\ cRes = NoneDt
    /\ lFiles = <<>> /\ lAction = "apply" /\ lForm = InitialForm
    /\ lPc = "start" /\ lProcessed = <<>> /\ lErrors = <<>>
    /\ folder = {}
    /\ uploaded_files = <<>>
    /\ metadata_values = [creation |-> NoneDt, mod |-> NoneDt]
    /\ last_first_filename = <<>>
    /\ run_action = "none"
    /\ processed_results = NoResults
    /\ processed_errors = <<>>
    /\ last_action = "none"

Decode ==
    /\ cOp = "decode" /\ cPc = "start"
    /\ cRes' = pdf_date_to_datetime(cIn)
    /\ cPc' = "decoded"
    /\ UNCHANGED <<cOp, cIn, cDt, cStr, loopVars, buildVars, appVars>>

Encode ==
    /\ cOp = "encode" /\ cPc = "start"
    /\ cStr' = format_pdf_date(cDt, NoTz)
    /\ cPc' = IF LocalizeRaises(cDt, NoTz) THEN "raised" ELSE "encoded"
    /\ UNCHANGED <<cOp, cIn, cDt, cRes, loopVars, buildVars, appVars>>

DecodeEncoded ==
    /\ cPc = "encoded"
    /\ cRes' = pdf_date_to_datetime(PyStr(cStr))
    /\ cPc' = "roundtrip"
    /\ UNCHANGED <<cOp, cIn, cDt, cStr, loopVars, buildVars, appVars>>

NextCodec == Decode \/ Encode \/ DecodeEncoded

SpecCodec == InitCodec /\ [][NextCodec]_vars

-----------------------------------------------------------------------------
(* Properties of the codec (checked under SpecCodec)                        *)

\* what the properties say a string is made of, stated without the code's
\* slicing: the leading run of digits (at most 14) and what follows it
RECURSIVE DigitRun(_, _)
DigitRun(s, n) ==
    IF n = 0 \/ s = <<>> \/ ~IsDigit(Head(s)) THEN <<>>
    ELSE <<Head(s)>> \o DigitRun(Tail(s), n - 1)

\* a 14-digit string that names a calendar date and a time of day
CalendarValid(p) ==
    LET y  == IntOf(SubSeq(p, 1, 4))
        mo == IntOf(SubSeq(p, 5, 6))
        d  == IntOf(SubSeq(p, 7, 8))
    IN  /\ y >= 1 /\ mo \in 1..12 /\ d >= 1 /\ d <= DaysInMonth(y, mo)
        /\ IntOf(SubSeq(p, 9, 10)) <= 23
        /\ IntOf(SubSeq(p, 11, 12)) <= 59
        /\ IntOf(SubSeq(p, 13, 14)) <= 59

\* Z, or a sign, two digits, a quote, two digits, a quote
IsOffsetSuffix(s) ==
    /\ Len(s) = 7 /\ s[1] \in {"+", "-"}
    /\ IsDigit(s[2]) /\ IsDigit(s[3]) /\ s[4] = "'"
    /\ IsDigit(s[5]) /\ IsDigit(s[6]) /\ s[7] = "'"
IsTzSuffix(s) == s = <<"Z">> \/ IsOffsetSuffix(s)

\* the body of the decoded input, after "D:"
InBody == SliceFrom(cIn.s, 2)
InHasPrefix == cIn.isstr /\ StartsWith(cIn.s, <<"D", ":">>)
InDigits == DigitRun(InBody, 14)
InSuffix == SliceFrom(InBody, Len(InDigits))

\* C1 (as claimed): every aware datetime with valid calendar fields and an
\* offset of -720..840 minutes comes back from
\* pdf_date_to_datetime(format_pdf_date(x)) with the same wall-clock fields
\* and the same offset.
C1_RoundTrip ==
    (cPc = "roundtrip" /\ cDt.kind = "dt" /\ cDt.off \in -720..840)
        => cRes = cDt

\* C2 (as claimed): pdf_date_to_datetime never raises: every call returns a
\* datetime or None.
C2_DecodeNeverRaises ==
    cPc \in {"decoded", "roundtrip"} => cRes.kind # "raise"

\* C3 (as claimed): pdf_date_to_datetime returns None exactly when the input
\* lacks the D: prefix or its digit segment (the leading run of up to 14
\* digits), zero-padded to 14, is not a valid date-time; the suffix is what
\* follows the digits.
C3_NullIffBadDigits ==
    cPc = "decoded" =>
        (cRes.kind = "none"
            <=> (~InHasPrefix \/ ~CalendarValid(Ljust(InDigits, 14, "0"))))

\* C4 (as claimed): D: followed by only a year, or only a year and a month,
\* decodes to the first day (and month) of it, at 00:00:00 UTC.
C4_PartialDigits ==
    (cPc = "decoded" /\ InHasPrefix /\ InSuffix = <<>>
     /\ Len(InDigits) \in {4, 6})
        => cRes = AwareDt(IntOf(SubSeq(InDigits, 1, 4)),
                          IF Len(InDigits) = 6 THEN IntOf(SubSeq(InDigits, 5, 6))
                          ELSE 1,
                          1, 0, 0, 0, 0)

\* C5 (as claimed): after 14 valid digits, a signed suffix gives the offset
\* sign * (hours * 60 + minutes), where hours and minutes each count as 0,
\* independently, when absent or without digits.
OffsetComponent(s) == IF IntParses(FilterDigits(s)) THEN IntOf(FilterDigits(s)) ELSE 0
ClaimedOffset(suffix) ==
    LET hours   == OffsetComponent(Slice(suffix, 1, 3))
        minutes == IF Len(suffix) >= 6 THEN OffsetComponent(Slice(suffix, 4, 6))
                   ELSE 0
    IN  (IF suffix[1] = "-" THEN -1 ELSE 1) * (hours * 60 + minutes)
C5_OffsetDerivation ==
    (cPc = "decoded" /\ InHasPrefix /\ Len(InDigits) = 14
     /\ CalendarValid(InDigits) /\ InSuffix # <<>>
     /\ InSuffix[1] \in {"+", "-"})
        => (cRes.kind = "dt" /\ cRes.off = ClaimedOffset(InSuffix))

\* C9 (as claimed): format_pdf_date writes D:, the 14 wall-clock digits of
\* the datetime in its own offset, and then Z for a zero offset, or the
\* sign, two-digit hours, a quote, two-digit minutes, a quote.
C9_EncodeCanonical ==
    (cPc \in {"encoded", "roundtrip"} /\ cDt.kind = "dt")
        => cStr = <<"D", ":">>
                  \o Fmt14(cDt.year, cDt.month, cDt.day, cDt.hour, cDt.minute,
                           cDt.second)
                  \o (IF cDt.off = 0 THEN <<"Z">>
                      ELSE <<IF cDt.off > 0 THEN "+" ELSE "-">>
                           \o ZPad(Abs(cDt.off) \div 60, 2) \o <<"'">>
                           \o ZPad(Abs(cDt.off) % 60, 2) \o <<"'">>)

-----------------------------------------------------------------------------
(* Properties of the processing loop (checked under SpecLoop and Spec)      *)

\* the files whose open, transform or serialize step raises, and what
\* str(exc) is
Raises(file, act, w) ==
    \/ file.doc.kind \in {"corrupt", "unwritable"}
    \/ act = "apply" /\ DatesRaise(w)
ExcOf(file, act, w) ==
    IF file.doc.kind = "corrupt" THEN ExcOpen
    ELSE IF act = "apply" /\ DatesRaise(w) THEN ExcLocalize
    ELSE ExcWrite

\* the file of the table an output was made from (its pages)
SourceOf(entry) == CHOOSE i \in FileIds : FileTable[i].doc.pages = entry.pages

\* what one file yields when the loop runs over it alone
Alone(file, act, w) == Loop(<<file>>, 1, act, w, LoopStart)

\* the files of a batch that do not raise, and those that do, in input order
Good(files, act, w) == SelectSeq(files, LAMBDA f : ~Raises(f, act, w))
Bad(files, act, w) == SelectSeq(files, LAMBDA f : Raises(f, act, w))

\* `processed` holds one entry per good file, in input order, and it is the
\* entry the file yields alone; `errors` holds one line per bad file, in
\* input order; together they are n outcomes
Isolated(good, bad, act, w, n, processed, errors) ==
    /\ Len(processed) + Len(errors) = n
    /\ Len(processed) = Len(good)
    /\ \A k \in 1..Len(good) :
           /\ processed[k].pages = good[k].doc.pages
           /\ processed[k] = Alone(good[k], act, w).processed[1]
    /\ errors = [k \in 1..Len(bad) |->
                    ErrorLine(bad[k].name, ExcOf(bad[k], act, w))]

\* C6: one run of the loop over a batch of N files ends with N outcomes:
\* the files that do not raise give `processed`, one entry each, in input
\* order; the files that raise give `errors`, one line "name: error text"
\* each, in input order; and the entry of a file is the one the loop gives
\* when it runs over that file alone, whatever the iterations before it,
\* failed or not, have left in the names the loop body binds.
C6_BatchIsolation ==
    lPc = "done" =>
        Isolated(Good(FilesOf(lFiles), lAction, lForm),
                 Bad(FilesOf(lFiles), lAction, lForm),
                 lAction, lForm, Len(lFiles), lProcessed, lErrors)

\* C6 witness: a run over three files, the second of which is no document,
\* has ended with the outputs of the first and the third and one error line
C6_Witness ==
    /\ lPc = "done"
    /\ Len(lFiles) = 3
    /\ FileTable[lFiles[1]].doc.kind = "ok"
    /\ FileTable[lFiles[2]].doc.kind = "corrupt"
    /\ FileTable[lFiles[3]].doc.kind = "ok"
    /\ Len(lProcessed) = 2
    /\ lProcessed[1].pages = FileTable[lFiles[1]].doc.pages
    /\ lProcessed[2].pages = FileTable[lFiles[3]].doc.pages
    /\ lErrors = <<ErrorLine(FileTable[lFiles[2]].name, ExcOpen)>>

\* a PDF date in its wire format: D:, 4 to 14 calendar digits, then nothing,
\* Z, or a signed hh'mm'
IsWireDate(s) ==
    /\ StartsWith(s, <<"D", ":">>)
    /\ LET body   == SliceFrom(s, 2)
           digits == DigitRun(body, 14)
           suffix == SliceFrom(body, Len(digits))
       IN  /\ Len(digits) \in {4, 6, 8, 10, 12, 14}
           /\ IntOf(SubSeq(digits, 1, 4)) >= 1
           /\ Len(digits) >= 6 => IntOf(SubSeq(digits, 5, 6)) \in 1..12
           /\ Len(digits) >= 8 => CalendarValid(Ljust(digits, 14, "0"))
           /\ suffix = <<>> \/ IsTzSuffix(suffix)

PreservedAs(entry, key) ==
    LET original == DictGet(FileTable[SourceOf(entry)].doc.info, key)
    IN  IsWireDate(original) =>
            /\ key \in DOMAIN entry.info
            /\ pdf_date_to_datetime(PyStr(entry.info[key])).kind = "dt"
            /\ pdf_date_to_datetime(PyStr(entry.info[key]))
                   = pdf_date_to_datetime(PyStr(original))

\* C7 (as claimed): an Apply run with the same-dates option off writes, for
\* every file whose own CreationDate (ModDate) is a valid wire-format date, a
\* CreationDate (ModDate) that decodes to the same wall-clock fields and the
\* same offset.
C7_PreserveOriginal ==
    [][(\E w \in Forms : ~w.apply_same_dates /\ ApplyChanges(w)) =>
        \A k \in 1..Len(processed_results'.list) :
            /\ PreservedAs(processed_results'.list[k], "/CreationDate")
            /\ PreservedAs(processed_results'.list[k], "/ModDate")
       ]_vars

\* C8: the outputs of a Clear run carry neither /CreationDate nor /ModDate,
\* whatever the source held and whether or not the engine stamped the writer.
C8_ClearRemovesDates ==
    last_action = "clear" =>
        \A k \in 1..Len(processed_results.list) :
            DOMAIN processed_results.list[k].info
                \cap {"/CreationDate", "/ModDate"} = {}

\* C8 witness: a Clear run wrote a file that carried dates, on an engine
\* that stamps its writers
C8_Witness ==
    /\ last_action = "clear"
    /\ autoDates
    /\ \E k \in 1..Len(processed_results.list) :
           "/CreationDate" \in
               DOMAIN FileTable[SourceOf(processed_results.list[k])].doc.info

\* name = s, a dot, and an extension without a dot: s is the name without
\* its final extension
SplitsAt(name, s) ==
    \E i \in 2..(Len(name) - 1) :
        /\ name[i] = "."
        /\ \A j \in (i + 1)..Len(name) : name[j] # "."
        /\ s = SubSeq(name, 1, i - 1)

\* C10: every output is named "[EDITED] " (Apply) or "[CLEARED] " (Clear),
\* then the source name without its final extension, then ".pdf"; the
\* prefix is the one of the run's action for every output.
C10_OutputNaming ==
    last_action # "none" =>
        \A k \in 1..Len(processed_results.list) :
            \E s \in {SubSeq(FileTable[SourceOf(processed_results.list[k])].name, 1, n)
                        : n \in 1..Len(FileTable[SourceOf(processed_results.list[k])].name)} :
                /\ SplitsAt(FileTable[SourceOf(processed_results.list[k])].name, s)
                /\ processed_results.list[k].name
                     = (IF last_action = "apply"
                        THEN <<"[", "E", "D", "I", "T", "E", "D", "]", " ">>
                        ELSE <<"[", "C", "L", "E", "A", "R", "E", "D", "]", " ">>)
                       \o s \o <<".", "p", "d", "f">>

\* C10 witness: a Clear run named the output of a source whose name has two
\* dots and an upper-case extension
C10_Witness ==
    /\ last_action = "clear"
    /\ \E k \in 1..Len(processed_results.list) :
        /\ FileTable[SourceOf(processed_results.list[k])].name
               = <<"a", ".", "b", ".", "P", "D", "F">>
        /\ processed_results.list[k].name
               = <<"[", "C", "L", "E", "A", "R", "E", "D", "]", " ",
                   "a", ".", "b", ".", "p", "d", "f">>

-----------------------------------------------------------------------------
(* Properties of the session across reruns (checked under Spec)             *)

\* lines 556-557: the download section is rendered when the script runs past
\* the uploader (a non-empty upload) and processed_results is a non-empty list
DownloadOffered ==
    /\ uploaded_files # <<>>
    /\ ~processed_results.none
    /\ processed_results.list # <<>>

\* the places of the table the uploader currently holds
UploadedIds == {uploaded_files[i] : i \in 1..Len(uploaded_files)}

\* C11 (as claimed): results do not outlive their batch: whenever the
\* download section is offered, every output it offers was produced from a
\* file of the batch that is uploaded now.
C11_ResultsFollowUpload ==
    DownloadOffered =>
        \A k \in 1..Len(processed_results.list) :
            SourceOf(processed_results.list[k]) \in UploadedIds

\* C12 (as claimed): the source names of the table being pairwise distinct,
\* the output names of the successes of one run are pairwise distinct, so
\* the zip archive of lines 570-577 holds one entry per name.
C12_UniqueOutputNames ==
    (\A i, j \in FileIds : i # j => FileTable[i].name # FileTable[j].name) =>
        \A k, l \in 1..Len(processed_results.list) :
            k # l => processed_results.list[k].name
                        # processed_results.list[l].name

=============================================================================
